---- MODULE Spec2Model ----
(***************************************************************************)
(* Model of the download orchestration core of youtube-downloader:         *)
(*   backend/app/services/downloader.py  (YoutubeDownloadService)          *)
(*   backend/app/api/routes.py           (live session, background path)   *)
(*                                                                         *)
(* Two execution contexts are modelled.  The event-loop thread runs the    *)
(* coroutines (websocket_download, download_video); everything a coroutine *)
(* does between two suspension points is one action.  Every download runs  *)
(* ydl.download in an executor thread; that thread calls _progress_hook,   *)
(* whose registry membership test (line 255), registry lookup (line 258)   *)
(* and try-block (lines 259-302) are separate steps, because the event     *)
(* loop thread can mutate progress_callbacks between them.                 *)
(***************************************************************************)
EXTENDS Integers, Sequences, FiniteSets, TLC

(* ---------------------------- bounds ---------------------------------- *)
MaxEvents == 2        \* hook events the external tool emits in a run, all downloads together
MaxRequests == 2      \* download requests received in a run, all tasks together
MaxEntries == 3       \* entries of a playlist
MaxFormats == 3       \* formats the extractor lists for a video

(* --------------------------- constants -------------------------------- *)
None == "None"

Sessions == {"s1", "s2"}        \* live sessions (routes.py websocket_download)
Backgrounds == {"b1"}           \* background downloads (routes.py POST /download)
Tasks == Sessions \cup Backgrounds

Ids == {"X"}                    \* item identifiers the extractor can resolve

\* What ydl.extract_info(url, download=False) yields for a request's url:
\* an info record with an id, an info record without id, or an exception
\* (also the outcome when it returns None: info.get raises AttributeError).
Resolutions == Ids \cup {"noid", "raises"}

(* --------------------------- file names ------------------------------- *)
\* File names are character sequences so that str.endswith is computed.
Webm == <<"t", ".", "w", "e", "b", "m">>
M4a == <<"t", ".", "m", "4", "a">>
Mkv == <<"t", ".", "m", "k", "v">>
FragF == <<"t", ".", "f">>
PreMergeMp4 == <<"t", ".", "f", "1", ".", "m", "p", "4">>
FinalMp4 == <<"t", ".", "m", "p", "4">>

Files == {Webm, M4a, Mkv, FragF, PreMergeMp4, FinalMp4}

\* The final output artifact of a download.  Video mode merges the
\* 'bestvideo[ext=mp4]' and 'bestaudio[ext=m4a]' streams into
\* '%(title)s.mp4' (merge_output_format mp4, FFmpegVideoConvertor mp4); every
\* other file the external tool reports is an intermediate of that pipeline
\* (pre-merge video stream, pre-merge / pre-transcode audio, fragments).
IsFinalArtifact(f) == f = FinalMp4

EndsWith(s, suf) ==
    /\ Len(s) >= Len(suf)
    /\ SubSeq(s, Len(s) - Len(suf) + 1, Len(s)) = suf

\* the tuple given to filename.endswith at downloader.py:291
IntermediateSuffixes ==
    { <<".", "w", "e", "b", "m">>, <<".", "m", "4", "a">>,
      <<".", "m", "k", "v">>, <<".", "f">> }

IsSkippedFilename(f) == \E suf \in IntermediateSuffixes : EndsWith(f, suf)

(* ----------------------------- state ---------------------------------- *)
VARIABLES
    progress_callbacks, \* YoutubeDownloadService.progress_callbacks (id -> callback)
    pc,                 \* position of each task's coroutine
    video_id,           \* local video_id of each task's download_video call
    outcome,            \* how each task's last download_video call ended
    reqno,              \* number of requests a task has received
    connected,          \* whether a session's consumer is still connected
    tpc,                \* position of each task's executor thread
    tres,               \* result of the external ydl.download call
    nev,                \* hook events emitted so far
    cur,                \* the event d the hook is handling
    held,               \* the hook's local variable 'callback'
    calls,              \* per session: callback invocations and terminal sends
    hookfault,          \* per task: how the last hook invocation that raised failed
    finalized,          \* per task: the external download has finished its final file
    fault_log,          \* hook faults the service has recorded (counter or log)
    slow,               \* per session: the consumer does not take what is sent to it
    fmt_in,             \* the 'formats' list of the info extract_info returned
    fmt_out,            \* the 'formats' list of the VideoInfo get_video_info returns
    batch_in,           \* playlist the batch run is given (tool's answer, failing entries)
    batch_out           \* result of batch_download_playlist

dlvars == <<progress_callbacks, pc, video_id, outcome, reqno, connected,
            tpc, tres, nev, cur, held, calls, hookfault, finalized, slow, fault_log>>
batchvars == <<batch_in, batch_out>>
fmtvars == <<fmt_in, fmt_out>>
vars == <<dlvars, batchvars, fmtvars>>

NoEvent == [status |-> None, id |-> None, filename |-> <<>>, valid |-> TRUE]
NoCallback == [sess |-> None, req |-> 0]

(* ------------------------- registry helpers --------------------------- *)
Register(cbs, id, cb) ==
    [k \in DOMAIN cbs \cup {id} |-> IF k = id THEN cb ELSE cbs[k]]

\* downloader.py:369-372, the finally block of download_video
Cleanup(cbs, id) ==
    IF id # None /\ id \in DOMAIN cbs
    THEN [k \in DOMAIN cbs \ {id} |-> cbs[k]]
    ELSE cbs

(* ------------------------- hook events -------------------------------- *)
Ev(st, id, f, ok) == [status |-> st, id |-> id, filename |-> f, valid |-> ok]

\* The dicts d the external tool may pass to a progress hook while it
\* downloads item v.  'id' is d['info_dict']['id'] (None when absent);
\* 'valid' is FALSE when the try-block raises while it reads d or builds the
\* DownloadProgress snapshot (a missing 'status', a field of the wrong type).
Events(v) ==
    { Ev("downloading", v, FinalMp4, TRUE) }
        \cup { Ev("finished", v, f, TRUE) : f \in Files }
        \cup { Ev("downloading", None, FinalMp4, TRUE),
               Ev("downloading", v, FinalMp4, FALSE) }

\* every event of the model
AllEvents == UNION { Events(v) : v \in Ids }

(* ------------------------------ Init ---------------------------------- *)
NoFmtIn == [info |-> None, formats |-> << >>]
NoFmtOut == [status |-> None, formats |-> << >>]
NoBatchIn == [info |-> None, entries |-> <<>>, failing |-> {}, callback |-> "absent"]
\* status: how batch_download_playlist ended; progress: whether the
\* BatchDownloadProgress object exists, the next three fields being its
\* fields; files: downloaded_files; attempted: the playlist indices for which
\* download_video ran; published: calls of the batch-progress callback.
NoBatchOut == [status |-> None, error |-> None, progress |-> FALSE,
               total_videos |-> 0, completed_videos |-> 0, failed_videos |-> <<>>,
               files |-> <<>>, attempted |-> <<>>, published |-> 0]

InitDownloads ==
    /\ progress_callbacks = << >>
    /\ pc = [t \in Tasks |-> "idle"]
    /\ video_id = [t \in Tasks |-> None]
    /\ outcome = [t \in Tasks |-> None]
    /\ reqno = [t \in Tasks |-> 0]
    /\ connected = [s \in Sessions |-> TRUE]
    /\ tpc = [t \in Tasks |-> "off"]
    /\ tres = [t \in Tasks |-> None]
    /\ nev = 0
    /\ cur = [t \in Tasks |-> NoEvent]
    /\ held = [t \in Tasks |-> NoCallback]
    /\ calls = [s \in Sessions |-> << >>]
    /\ hookfault = [t \in Tasks |-> None]
    /\ finalized = [t \in Tasks |-> FALSE]
    /\ slow = [s \in Sessions |-> FALSE]
    /\ fault_log = 0

Init ==
    /\ InitDownloads
    /\ batch_in = NoBatchIn
    /\ batch_out = NoBatchOut
    /\ fmt_in = NoFmtIn
    /\ fmt_out = NoFmtOut

\* requests received so far
Received == reqno["s1"] + reqno["s2"] + reqno["b1"]

(* ------------------- download_video (event loop) ---------------------- *)
\* Where a task's coroutine goes when its download_video call has ended:
\* a live session sends the terminal message next (routes.py:62-64), a
\* background task is over.
AfterCall(t) == IF t \in Sessions THEN "terminal" ELSE "done"

HasIdUnchecked(res) == res # "raises"

\* downloader.py:355-358: extract_info returned an info whose 'id' is truthy
HasId(res) == res \in Ids

\* downloader.py:351-372 up to the suspension at line 365.  res is what
\* extract_info(url, download=False) yields for the request's url.
\*  - it raises (or returns None, so that info.get raises): caught at 367,
\*    re-raised; video_id is still None, the finally block removes nothing;
\*  - the info has no id: "Could not get video ID" is raised, same path;
\*  - otherwise the callback, if given, is stored under the id and the
\*    blocking ydl.download is handed to the executor.
CallDownloadVideo(t, res) ==
    /\ reqno' = [reqno EXCEPT ![t] = @ + 1]
    /\ hookfault' = [hookfault EXCEPT ![t] = None]
    /\ IF HasId(res)
       THEN /\ video_id' = [video_id EXCEPT ![t] = res]
            /\ progress_callbacks' =
                 IF t \in Sessions
                 THEN \* the closure progress_callback of routes.py:52
                      Register(progress_callbacks, res,
                               [sess |-> t, req |-> reqno[t] + 1])
                 ELSE progress_callbacks
            /\ pc' = [pc EXCEPT ![t] = "await"]
            /\ outcome' = [outcome EXCEPT ![t] = None]
            /\ tpc' = [tpc EXCEPT ![t] = "run"]
            /\ tres' = [tres EXCEPT ![t] = None]
            /\ UNCHANGED nev
       ELSE /\ video_id' = [video_id EXCEPT ![t] = None]
            /\ progress_callbacks' = Cleanup(progress_callbacks, None)
            /\ pc' = [pc EXCEPT ![t] = AfterCall(t)]
            /\ outcome' = [outcome EXCEPT ![t] =
                             IF res = "noid" THEN "IdResolutionFailed"
                                             ELSE "ResolveRaised"]
            /\ UNCHANGED <<tpc, tres, nev>>
    /\ finalized' = [finalized EXCEPT ![t] = FALSE]
    /\ UNCHANGED <<connected, cur, held, calls, slow, fault_log, batchvars, fmtvars>>

\* routes.py:50-61: a request arrives on a live session and download_video
\* is awaited with a fresh progress_callback closure.
SessionRequest(s, res) ==
    /\ s \in Sessions
    /\ pc[s] = "idle"
    /\ connected[s]
    /\ Received < MaxRequests
    /\ CallDownloadVideo(s, res)

\* routes.py:57 data['url'] raises KeyError for a request without url; the
\* handler at 63-64 turns it into an error message, download_video is not
\* called.
SessionBadRequest(s) ==
    /\ s \in Sessions
    /\ pc[s] = "idle"
    /\ connected[s]
    /\ Received < MaxRequests
    /\ reqno' = [reqno EXCEPT ![s] = @ + 1]
    /\ pc' = [pc EXCEPT ![s] = "terminal"]
    /\ outcome' = [outcome EXCEPT ![s] = "BadRequest"]
    /\ video_id' = [video_id EXCEPT ![s] = None]
    /\ UNCHANGED <<progress_callbacks, connected, tpc, tres, nev, cur, held,
                   calls, hookfault, slow, finalized, fault_log, batchvars, fmtvars>>

\* routes.py:69-79: the background task runs download_video without callback.
BackgroundDownload(b, res) ==
    /\ b \in Backgrounds
    /\ pc[b] = "idle"
    /\ reqno[b] = 0
    /\ Received < MaxRequests
    /\ CallDownloadVideo(b, res)

\* downloader.py:365-372: the executor future is done, the coroutine resumes,
\* returns the title or raises the wrapped error; the finally block runs.
DownloadResume(t) ==
    /\ pc[t] = "await"
    /\ tpc[t] = "finished"
    /\ outcome' = [outcome EXCEPT ![t] =
                     IF tres[t] = "ok" THEN "Returned" ELSE "DownloadFailed"]
    /\ progress_callbacks' = Cleanup(progress_callbacks, video_id[t])
    /\ pc' = [pc EXCEPT ![t] = AfterCall(t)]
    /\ tpc' = [tpc EXCEPT ![t] = "off"]
    /\ tres' = [tres EXCEPT ![t] = None]
    /\ finalized' = [finalized EXCEPT ![t] = FALSE]
    /\ UNCHANGED <<video_id, reqno, connected, nev, cur, held,
                   calls, hookfault, slow, fault_log, batchvars, fmtvars>>

CancelCleanupInExcept(cbs, id) == cbs

\* What the registry is after a CancelledError unwinds download_video: it is
\* no Exception, so line 367 is skipped, and the finally block 369-372 runs.
CancelCleanup(cbs, id) == Cleanup(cbs, id)

\* The task awaiting download_video is cancelled while it waits at line 365.
\* CancelledError passes every 'except Exception' of downloader.py and
\* routes.py, so the task ends without terminal message; the executor thread
\* keeps running ydl.download.
DownloadCancelled(t) ==
    /\ pc[t] = "await"
    /\ outcome' = [outcome EXCEPT ![t] = "Cancelled"]
    /\ progress_callbacks' = CancelCleanup(progress_callbacks, video_id[t])
    /\ pc' = [pc EXCEPT ![t] = "cancelled"]
    /\ UNCHANGED <<video_id, reqno, connected, tpc, tres, nev, cur, held,
                   calls, hookfault, slow, finalized, fault_log, batchvars, fmtvars>>

(* --------------- ydl.download and _progress_hook (executor) ----------- *)
\* downloader.py:254-256.  The external download emits hook event ev; the
\* hook reads the id and returns at once when it is absent or no callback
\* is stored under it.  One download reports 'finished' for its final file
\* once and reports nothing more about that file afterwards.
HookEnter(t, ev) ==
    /\ tpc[t] = "run"
    /\ nev < MaxEvents
    /\ ev \in Events(video_id[t])
    /\ finalized[t] => ~IsFinalArtifact(ev.filename)
    /\ finalized' = [finalized EXCEPT ![t] =
                        @ \/ (ev.status = "finished" /\ IsFinalArtifact(ev.filename))]
    /\ nev' = nev + 1
    /\ IF ev.id = None \/ ev.id \notin DOMAIN progress_callbacks
       THEN UNCHANGED <<tpc, cur>>
       ELSE /\ tpc' = [tpc EXCEPT ![t] = "lookup"]
            /\ cur' = [cur EXCEPT ![t] = ev]
    /\ UNCHANGED <<progress_callbacks, pc, video_id, outcome, reqno, connected,
                   tres, held, calls, hookfault, slow, fault_log, batchvars, fmtvars>>

\* downloader.py:258, outside the try block.  The subscript raises KeyError
\* when the entry was deleted after the membership test; the exception leaves
\* the hook and unwinds the external download call that invoked it.
HookLookup(t) ==
    /\ tpc[t] = "lookup"
    /\ IF cur[t].id \in DOMAIN progress_callbacks
       THEN /\ held' = [held EXCEPT ![t] = progress_callbacks[cur[t].id]]
            /\ tpc' = [tpc EXCEPT ![t] = "try"]
            /\ UNCHANGED <<cur, tres, hookfault>>
       ELSE /\ hookfault' = [hookfault EXCEPT ![t] = "KeyError"]
            /\ tpc' = [tpc EXCEPT ![t] = "finished"]
            /\ tres' = [tres EXCEPT ![t] = "raised"]
            /\ cur' = [cur EXCEPT ![t] = NoEvent]
            /\ UNCHANGED held
    /\ UNCHANGED <<progress_callbacks, pc, video_id, outcome, reqno, connected,
                   nev, calls, slow, finalized, fault_log, batchvars, fmtvars>>

HookOnExceptionPropagate == "raise"

\* downloader.py:301-302, 'except Exception: pass'
HookOnException == "pass"

ForwardsOnlyFinished(ev) ==
    ev.valid /\ ev.status = "finished" /\ ~IsSkippedFilename(ev.filename)

\* Whether the try block of the hook invokes the callback for event ev:
\* a downloading event always (260-280), a finished event unless its
\* filename ends with one of the intermediate suffixes (283-300).
Forwards(ev) ==
    /\ ev.valid
    /\ \/ ev.status = "downloading"
       \/ ev.status = "finished" /\ ~IsSkippedFilename(ev.filename)

\* routes.py:53, 62, 64: 'await websocket.send_json(...)' does not complete
\* while the connected consumer of session s takes nothing; the hook waits
\* for the callback's send in run_until_complete / asyncio.run
\* (downloader.py:280, 300).
SendBlocks(s) == connected[s] /\ slow[s]

\* The record of one callback invocation: progress_callback (routes.py:52-53)
\* sends the snapshot on its session's websocket; the send raises when the
\* consumer is gone.
Invocation(t, ev, cb) ==
    [kind |-> ev.status, req |-> cb.req, src |-> t, filename |-> ev.filename,
     delivered |-> connected[cb.sess]]

\* downloader.py:302: what the except clause of the hook does to the
\* service's record of faults.  Its body is 'pass': nothing is counted,
\* logged or printed.
RecordFault(log) == log

\* downloader.py:259-302.  An exception of the try block (building the
\* snapshot, the callback's send) is handled by HookOnException.
HookTry(t) ==
    /\ tpc[t] = "try"
    /\ Forwards(cur[t]) => ~SendBlocks(held[t].sess)
    /\ LET ev == cur[t]
           cb == held[t]
           raised == \/ ~ev.valid
                     \/ Forwards(ev) /\ ~connected[cb.sess]
       IN /\ calls' = IF Forwards(ev)
                      THEN [calls EXCEPT ![cb.sess] = Append(@, Invocation(t, ev, cb))]
                      ELSE calls
          /\ IF raised /\ HookOnException = "raise"
             THEN /\ hookfault' = [hookfault EXCEPT ![t] = "HookError"]
                  /\ tpc' = [tpc EXCEPT ![t] = "finished"]
                  /\ tres' = [tres EXCEPT ![t] = "raised"]
             ELSE /\ tpc' = [tpc EXCEPT ![t] = "run"]
                  /\ UNCHANGED <<tres, hookfault>>
          /\ fault_log' = IF raised /\ HookOnException = "pass"
                          THEN RecordFault(fault_log)
                          ELSE fault_log
    /\ cur' = [cur EXCEPT ![t] = NoEvent]
    /\ held' = [held EXCEPT ![t] = NoCallback]
    /\ UNCHANGED <<progress_callbacks, pc, video_id, outcome, reqno, connected,
                   nev, slow, finalized, batchvars, fmtvars>>

\* downloader.py:365: ydl.download returns or raises on its own account.
ToolFinish(t, r) ==
    /\ tpc[t] = "run"
    /\ r \in {"ok", "raised"}
    /\ tpc' = [tpc EXCEPT ![t] = "finished"]
    /\ tres' = [tres EXCEPT ![t] = r]
    /\ UNCHANGED <<progress_callbacks, pc, video_id, outcome, reqno, connected,
                   nev, cur, held, calls, hookfault, slow, finalized, fault_log, batchvars, fmtvars>>

(* ------------------------ live session (routes.py) -------------------- *)
Terminal(s) ==
    [kind |-> IF outcome[s] = "Returned" THEN "completed" ELSE "error",
     req |-> reqno[s], src |-> s, filename |-> <<>>, delivered |-> TRUE]

AfterTerminalCloseOnError(s) ==
    IF outcome[s] = "Returned" THEN "idle" ELSE "closed"

\* routes.py:49, 'while True': after the terminal message of a request,
\* completed (62) or error (64), the handler is back at receive_json (50).
AfterTerminal(s) == "idle"

\* routes.py:62-67.  The terminal message of the request is sent and the
\* loop waits for the next request; when the consumer is gone both sends
\* raise and the outer handler closes the session.
SessionTerminal(s) ==
    /\ s \in Sessions
    /\ pc[s] = "terminal"
    /\ ~SendBlocks(s)
    /\ IF connected[s]
       THEN /\ calls' = [calls EXCEPT ![s] = Append(@, Terminal(s))]
            /\ pc' = [pc EXCEPT ![s] = AfterTerminal(s)]
       ELSE /\ pc' = [pc EXCEPT ![s] = "closed"]
            /\ UNCHANGED calls
    /\ video_id' = [video_id EXCEPT ![s] = None]
    /\ outcome' = [outcome EXCEPT ![s] = None]
    /\ UNCHANGED <<progress_callbacks, reqno, connected,
                   tpc, tres, nev, cur, held, hookfault, slow, finalized, fault_log, batchvars, fmtvars>>

\* routes.py:50, 66-67: receive_json raises on a closed connection.
SessionClosed(s) ==
    /\ s \in Sessions
    /\ pc[s] = "idle"
    /\ ~connected[s]
    /\ pc' = [pc EXCEPT ![s] = "closed"]
    /\ UNCHANGED <<progress_callbacks, video_id, outcome, reqno, connected,
                   tpc, tres, nev, cur, held, calls, hookfault, slow, finalized, fault_log, batchvars, fmtvars>>

\* The consumer of a live session goes away.
Disconnect(s) ==
    /\ s \in Sessions
    /\ connected[s]
    /\ pc[s] \notin {"closed", "cancelled"}
    /\ connected' = [connected EXCEPT ![s] = FALSE]
    /\ UNCHANGED <<progress_callbacks, pc, video_id, outcome, reqno,
                   tpc, tres, nev, cur, held, calls, hookfault, slow, finalized, fault_log, batchvars, fmtvars>>

\* The consumer of a live session stops taking what is sent to it.
ConsumerStalls(s) ==
    /\ s \in Sessions
    /\ connected[s]
    /\ ~slow[s]
    /\ slow' = [slow EXCEPT ![s] = TRUE]
    /\ UNCHANGED <<progress_callbacks, pc, video_id, outcome, reqno, connected,
                   tpc, tres, nev, cur, held, calls, hookfault, finalized,
                   fault_log, batchvars, fmtvars>>

\* The consumer takes again.
ConsumerResumes(s) ==
    /\ s \in Sessions
    /\ slow[s]
    /\ slow' = [slow EXCEPT ![s] = FALSE]
    /\ UNCHANGED <<progress_callbacks, pc, video_id, outcome, reqno, connected,
                   tpc, tres, nev, cur, held, calls, hookfault, finalized,
                   fault_log, batchvars, fmtvars>>

(* ------------------------------ Next ---------------------------------- *)
\* One live session next to one background download.
MixSessions == {"s1"}
MixTasks == {"s1", "b1"}

Next ==
    \/ \E s \in MixSessions, res \in Resolutions : SessionRequest(s, res)
    \/ \E s \in MixSessions : SessionBadRequest(s)
    \/ \E b \in Backgrounds, res \in Resolutions : BackgroundDownload(b, res)
    \/ \E t \in MixTasks : DownloadResume(t)
    \/ \E t \in MixTasks : DownloadCancelled(t)
    \/ \E t \in MixTasks, ev \in AllEvents : HookEnter(t, ev)
    \/ \E t \in MixTasks : HookLookup(t)
    \/ \E t \in MixTasks : HookTry(t)
    \/ \E t \in MixTasks, r \in {"ok", "raised"} : ToolFinish(t, r)
    \/ \E s \in MixSessions : SessionTerminal(s)
    \/ \E s \in MixSessions : SessionClosed(s)
    \/ \E s \in MixSessions : Disconnect(s)

Spec == Init /\ [][Next]_vars

\* Two live sessions, no background download.
NextLive ==
    \/ \E s \in Sessions, res \in Resolutions : SessionRequest(s, res)
    \/ \E s \in Sessions : SessionBadRequest(s)
    \/ \E s \in Sessions : DownloadResume(s)
    \/ \E s \in Sessions : DownloadCancelled(s)
    \/ \E s \in Sessions, ev \in AllEvents : HookEnter(s, ev)
    \/ \E s \in Sessions : HookLookup(s)
    \/ \E s \in Sessions : HookTry(s)
    \/ \E s \in Sessions, r \in {"ok", "raised"} : ToolFinish(s, r)
    \/ \E s \in Sessions : SessionTerminal(s)
    \/ \E s \in Sessions : SessionClosed(s)
    \/ \E s \in Sessions : Disconnect(s)

SpecLive == Init /\ [][NextLive]_vars

\* One live session whose consumer may stall.
NextSlow ==
    \/ \E s \in MixSessions, res \in Resolutions : SessionRequest(s, res)
    \/ \E s \in MixSessions : SessionBadRequest(s)
    \/ \E s \in MixSessions : DownloadResume(s)
    \/ \E s \in MixSessions : DownloadCancelled(s)
    \/ \E s \in MixSessions, ev \in AllEvents : HookEnter(s, ev)
    \/ \E s \in MixSessions : HookLookup(s)
    \/ \E s \in MixSessions : HookTry(s)
    \/ \E s \in MixSessions, r \in {"ok", "raised"} : ToolFinish(s, r)
    \/ \E s \in MixSessions : SessionTerminal(s)
    \/ \E s \in MixSessions : SessionClosed(s)
    \/ \E s \in MixSessions : Disconnect(s)
    \/ \E s \in MixSessions : ConsumerStalls(s)
    \/ \E s \in MixSessions : ConsumerResumes(s)

SpecSlow == Init /\ [][NextSlow]_vars

(* ------------------- playlists (downloader.py:125-250) ---------------- *)
EntryIds == {"a", "b"}

RECURSIVE SeqsUpTo(_, _)
\* all sequences over S of length at most n
SeqsUpTo(S, n) ==
    IF n = 0 THEN { << >> }
    ELSE LET shorter == SeqsUpTo(S, n - 1)
         IN shorter \cup { Append(q, x) : q \in { r \in shorter : Len(r) = n - 1 }, x \in S }

\* A batch run's environment: what extract_info yields for the playlist url
\* ("raises", "none" for an empty answer, "noentries" for an info without
\* 'entries', "playlist" for an info with the given entries, None marking a
\* private or deleted one), the 1-based positions whose download raises, and
\* the batch-progress callback (absent, returning, raising).
BatchInputs ==
    { [info |-> i, entries |-> << >>, failing |-> {}, callback |-> "absent"] :
          i \in {"raises", "none", "noentries"} }
    \cup
    { [info |-> "playlist", entries |-> e, failing |-> f, callback |-> c] :
          e \in SeqsUpTo(EntryIds \cup {None}, MaxEntries),
          f \in SUBSET (1 .. MaxEntries),
          c \in {"absent", "returns", "raises"} }

\* Fields of the pydantic models (downloader.py:20-26 and 42-48): a field
\* without default is required, a keyword that is no field is ignored by the
\* constructor, assigning an attribute that is no field raises ValueError.
PlaylistInfoRequired == {"id", "title", "video_count", "videos", "webpage_url"}
BatchDownloadProgressFields ==
    {"status", "total_videos", "completed_videos", "current_video",
     "failed_videos", "playlist_title"}
BatchDownloadProgressRequired == {"status", "total_videos", "completed_videos"}

\* keywords of the PlaylistInfo(...) call at downloader.py:160-167
PlaylistInfoGiven == {"id", "title", "uploader", "description", "webpage_url", "videos"}
\* keywords of the BatchDownloadProgress(...) call at downloader.py:182-189
BatchDownloadProgressGiven ==
    {"total_videos", "completed_videos", "current_video_title",
     "current_video_progress", "start_time", "estimated_time_remaining"}
\* parameters of download_video (downloader.py:304) and the keywords of the
\* call at downloader.py:228-232
DownloadVideoParams ==
    {"url", "format_id", "extract_audio", "start_time", "end_time", "callback"}
BatchCallKeywords == {"format_id", "progress_hooks"}
\* the field the per-entry progress_hook writes (downloader.py:212)
BatchHookField == "current_video_progress"

\* pydantic validation of a model construction
Validates(required, given) == required \subseteq given

\* downloader.py:145-158: one VideoInfo per non-empty entry, playlist_index
\* taken from enumerate(info['entries'], 1)
Videos(entries) ==
    LET idx == SelectSeq([i \in 1 .. Len(entries) |-> i],
                         LAMBDA i : entries[i] # None)
    IN [k \in 1 .. Len(idx) |-> [id |-> entries[idx[k]], playlist_index |-> idx[k]]]

\* downloader.py:134-172
GetPlaylistInfo(inp) ==
    IF inp.info = "raises"
    THEN [ok |-> FALSE, error |-> "ExtractorError", videos |-> << >>]
    ELSE IF inp.info = "none"
    THEN [ok |-> FALSE, error |-> "No playlist information found", videos |-> << >>]
    ELSE IF inp.info = "noentries"
    THEN [ok |-> FALSE, error |-> "URL is not a playlist", videos |-> << >>]
    ELSE IF ~Validates(PlaylistInfoRequired, PlaylistInfoGiven)
    THEN [ok |-> FALSE, error |-> "ValidationError", videos |-> << >>]
    ELSE [ok |-> TRUE, error |-> None, videos |-> Videos(inp.entries)]

\* downloader.py:195-244, the body of the loop for one video.  Every
\* exception of the body is caught at 241 and the loop continues; nothing is
\* appended to failed_videos.
BatchStep(st, video, inp) ==
    IF "current_video_title" \notin BatchDownloadProgressFields
    THEN st                                    \* ValueError at 197
    ELSE IF inp.callback = "raises"
    THEN [st EXCEPT !.published = @ + 1]       \* callback raises at 201
    ELSE LET st1 == IF inp.callback = "returns"
                    THEN [st EXCEPT !.published = @ + 1] ELSE st
         IN IF ~(BatchCallKeywords \subseteq DownloadVideoParams)
            THEN st1                           \* TypeError at 228
            ELSE LET st2 == [st1 EXCEPT !.attempted = Append(@, video.playlist_index)]
                 IN IF video.playlist_index \in inp.failing
                    THEN st2                   \* download_video raises
                    ELSE [st2 EXCEPT !.completed_videos = @ + 1,
                                     !.files = Append(@, video.id),
                                     !.published = IF inp.callback = "absent"
                                                   THEN @ ELSE @ + 1]

RECURSIVE BatchLoop(_, _, _, _)
BatchLoop(st, videos, k, inp) ==
    IF k > Len(videos) THEN st
    ELSE BatchLoop(BatchStep(st, videos[k], inp), videos, k + 1, inp)

\* downloader.py:174-250
BatchResult(inp) ==
    LET pl == GetPlaylistInfo(inp)
        raised(e) == [NoBatchOut EXCEPT !.status = "raised", !.error = e]
    IN IF ~pl.ok THEN raised(pl.error)
       ELSE IF ~Validates(BatchDownloadProgressRequired, BatchDownloadProgressGiven)
       THEN raised("ValidationError")
       ELSE [BatchLoop([NoBatchOut EXCEPT !.progress = TRUE,
                                          !.total_videos = Len(pl.videos)],
                       pl.videos, 1, inp)
               EXCEPT !.status = "returned"]

\* batch_download_playlist runs from call to return without suspending
\* before the first download: one action.
BatchDownloadPlaylist ==
    /\ batch_out.status = None
    /\ batch_in.info # None
    /\ batch_out' = BatchResult(batch_in)
    /\ UNCHANGED <<batch_in, dlvars, fmtvars>>

InitBatch ==
    /\ InitDownloads
    /\ batch_in \in BatchInputs
    /\ batch_out = NoBatchOut
    /\ fmt_in = NoFmtIn
    /\ fmt_out = NoFmtOut

NextBatch == BatchDownloadPlaylist

SpecBatch == InitBatch /\ [][NextBatch]_vars

(* ------------------ get_video_info (downloader.py:56-123) ------------- *)
\* The format dicts of the external tool, reduced to the keys the filter and
\* the sort read.  tbr is an optional number: NoTbr when the key is absent
\* or None, else the one-element sequence of the bitrate.
NoTbr == << >>
RawFormats ==
    [acodec : {"none", "aac"}, vcodec : {"none", "avc"},
     ext : {"mp4", "webm"}, tbr : {NoTbr, <<1>>, <<2>>}]

\* What extract_info yields for the url: nothing, or an info with formats.
FormatInputs ==
    { [info |-> "none", formats |-> << >>] }
    \cup { [info |-> "found", formats |-> q] : q \in SeqsUpTo(RawFormats, MaxFormats) }

\* downloader.py:78-80
IncludesFormat(f) ==
    \/ f.acodec # "none" /\ f.vcodec # "none"
    \/ f.vcodec # "none" /\ f.ext = "mp4"
    \/ f.acodec # "none" /\ f.vcodec = "none"

\* downloader.py:89-94, the kind label of format_note
FormatNote(f) ==
    IF f.acodec # "none" /\ f.vcodec # "none" THEN "video+audio"
    ELSE IF f.acodec = "none" THEN "video-only"
    ELSE IF f.vcodec = "none" THEN "audio-only"
    ELSE ""

\* downloader.py:96-104
FormatRecord(f) ==
    [ext |-> f.ext, format_note |-> FormatNote(f), tbr |-> f.tbr,
     has_audio |-> f.acodec # "none", has_video |-> f.vcodec # "none"]

TbrGreaterNoneFirst(a, b) ==
    b.tbr # NoTbr /\ (a.tbr = NoTbr \/ a.tbr[1] > b.tbr[1])

\* downloader.py:107: the sort key of a is greater than that of b, the key
\* being tbr, or minus infinity when tbr is None.
TbrGreater(a, b) ==
    a.tbr # NoTbr /\ (b.tbr = NoTbr \/ a.tbr[1] > b.tbr[1])

\* list.sort(reverse=True) is stable: x goes before the first element whose
\* key is smaller, behind the elements of equal key already placed.
InsertFormat(sorted, x) ==
    LET smaller == { i \in 1 .. Len(sorted) : TbrGreater(x, sorted[i]) }
        at == IF smaller = {} THEN Len(sorted) + 1
              ELSE CHOOSE i \in smaller : \A j \in smaller : i <= j
    IN SubSeq(sorted, 1, at - 1) \o <<x>> \o SubSeq(sorted, at, Len(sorted))

RECURSIVE SortFormats(_, _)
SortFormats(formats, k) ==
    IF k = 0 THEN << >>
    ELSE InsertFormat(SortFormats(formats, k - 1), formats[k])

\* downloader.py:72-107
SelectFormats(raw) ==
    LET kept == SelectSeq(raw, IncludesFormat)
        formats == [i \in 1 .. Len(kept) |-> FormatRecord(kept[i])]
    IN SortFormats(formats, Len(formats))

\* downloader.py:65-123
GetVideoInfo ==
    /\ fmt_in.info # None
    /\ fmt_out.status = None
    /\ fmt_out' = IF fmt_in.info = "none"
                  THEN [status |-> "raised", formats |-> << >>]
                  ELSE [status |-> "returned", formats |-> SelectFormats(fmt_in.formats)]
    /\ UNCHANGED <<fmt_in, dlvars, batchvars>>

InitFormats ==
    /\ InitDownloads
    /\ batch_in = NoBatchIn
    /\ batch_out = NoBatchOut
    /\ fmt_in \in FormatInputs
    /\ fmt_out = NoFmtOut

NextFormats == GetVideoInfo

SpecFormats == InitFormats /\ [][NextFormats]_vars

(* ============================ claims ================================== *)
IsTerminal(m) == m.kind \in {"completed", "error"}
IsProgress(m) == m.kind \in {"downloading", "finished"}

\* C1: for one item's download with a registered callback, the callback is
\* invoked with a finished snapshot at most once, whatever events the
\* external tool emits.  (Only invocations caused by the download's own
\* events are counted.)
C1_FinishedAtMostOnce ==
    \A s \in Sessions : \A r \in 1 .. MaxRequests :
        Cardinality({ i \in DOMAIN calls[s] :
                        /\ calls[s][i].kind = "finished"
                        /\ calls[s][i].req = r
                        /\ calls[s][i].src = s }) <= 1

\* C2: a finished event reaches the consumer only when its file is the final
\* output artifact; finished events of intermediate files are never forwarded.
C2_FinishedOnlyFinalArtifact ==
    \A s \in Sessions : \A i \in DOMAIN calls[s] :
        calls[s][i].kind = "finished" => IsFinalArtifact(calls[s][i].filename)

\* C3: when a download_video call ends -- it returns, the external download
\* fails, or the awaiting task is cancelled -- the registry holds no entry
\* under the call's item identifier; a call that fails while resolving the
\* identifier leaves the registry as it found it.
C3_CallbackRemovedOnExit ==
    [][ \A t \in Tasks :
          /\ (pc[t] = "await" /\ pc'[t] # "await")
                => video_id[t] \notin DOMAIN progress_callbacks'
          /\ (pc[t] = "idle" /\ pc'[t] \in {"terminal", "done"})
                => progress_callbacks' = progress_callbacks ]_vars

\* C3 witness: a session's first download returned, its second one was
\* cancelled after registering, and the registry is empty.
C3_Witness ==
    /\ pc["s1"] = "cancelled"
    /\ video_id["s1"] \in Ids
    /\ \E i \in DOMAIN calls["s1"] : calls["s1"][i].kind = "completed"
    /\ DOMAIN progress_callbacks = {}

\* positions of the non-empty entries of the playlist given to the batch
NonEmpty(inp) == { i \in 1 .. Len(inp.entries) : inp.entries[i] # None }

\* C4: for a playlist in which the downloads of a subset F of the entries
\* raise, the batch attempts every entry once in order, returns the
\* identifiers of the other entries and ends with one failed_videos record per
\* entry of F.
C4_BatchPartialFailure ==
    (batch_out.status # None /\ batch_in.info = "playlist") =>
        LET vs == Videos(batch_in.entries)
            good == SelectSeq(vs, LAMBDA v : v.playlist_index \notin batch_in.failing)
        IN /\ batch_out.status = "returned"
           /\ batch_out.attempted = [k \in 1 .. Len(vs) |-> vs[k].playlist_index]
           /\ batch_out.files = [k \in 1 .. Len(good) |-> good[k].id]
           /\ batch_out.completed_videos = Len(good)
           /\ Len(batch_out.failed_videos) = Len(vs) - Len(good)

\* C5: completed_videos plus the number of failed_videos never exceeds
\* total_videos, and the two are equal once the batch over a playlist has
\* ended.
C5_BatchCounts ==
    /\ batch_out.completed_videos + Len(batch_out.failed_videos)
           <= batch_out.total_videos
    /\ (batch_out.status # None /\ batch_in.info = "playlist") =>
           /\ batch_out.progress
           /\ batch_out.total_videos = Cardinality(NonEmpty(batch_in))
           /\ batch_out.completed_videos + Len(batch_out.failed_videos)
                  = batch_out.total_videos

\* C6: the batch raises only when the playlist metadata fetch fails; once the
\* extractor has answered with a playlist it returns a list.
C6_BatchRaisesOnlyOnFetchFailure ==
    batch_out.status = "raised" => batch_in.info # "playlist"

\* C7: on a live session whose consumer stays connected every request gets
\* progress snapshots followed by exactly one terminal message: nothing of a
\* request is sent after its terminal message, and every request that has
\* been processed has one.
C7_ProgressThenOneTerminal ==
    \A s \in Sessions : connected[s] =>
        /\ \A i, j \in DOMAIN calls[s] :
              (i < j /\ IsTerminal(calls[s][i])) => calls[s][j].req # calls[s][i].req
        /\ \A r \in 1 .. reqno[s] :
              (r < reqno[s] \/ pc[s] = "idle") =>
                  \E i \in DOMAIN calls[s] :
                      IsTerminal(calls[s][i]) /\ calls[s][i].req = r

\* C8: a consumer's disconnect aborts no download: the disconnect itself
\* changes no coroutine, no executor thread and no registration, and a hook
\* invocation whose delivery fails because the consumer is gone returns to the
\* external download, which goes on.
C8_DisconnectDoesNotAbort ==
    [][ /\ (\E s \in Sessions : connected[s] /\ ~connected'[s])
            => UNCHANGED <<pc, tpc, tres, outcome, progress_callbacks>>
        /\ \A t \in Tasks :
             ( /\ tpc[t] = "try"
               /\ tpc'[t] # "try"
               /\ Forwards(cur[t])
               /\ ~connected[held[t].sess] )
             => (tpc'[t] = "run" /\ tres'[t] = tres[t] /\ hookfault'[t] = hookfault[t]) ]_vars

\* C8 witness: the consumer is gone, a delivery of the session's own download
\* failed, and the download_video call has returned the title.
C8_Witness ==
    /\ ~connected["s1"]
    /\ pc["s1"] = "terminal"
    /\ outcome["s1"] = "Returned"
    /\ \E i \in DOMAIN calls["s1"] :
          ~calls["s1"][i].delivered /\ calls["s1"][i].src = "s1"

\* C9: no error raised inside the progress hook leaves the hook.
C9_HookNeverRaises ==
    \A t \in Tasks : hookfault[t] = None

\* C10: a download started through the background path causes no progress
\* snapshot to reach any consumer.
C10_BackgroundDeliversNothing ==
    \A s \in Sessions : \A i \in DOMAIN calls[s] :
        calls[s][i].src \notin Backgrounds

\* C11 as stated: while the callback is registered, every downloading event
\* handled by the hook produces exactly one callback invocation.
C11_EveryDownloadingEventInvokes ==
    [][ \A t \in Tasks :
          (tpc[t] = "try" /\ tpc'[t] # "try" /\ cur[t].status = "downloading")
            => Len(calls'[held[t].sess]) = Len(calls[held[t].sess]) + 1 ]_vars

\* C11 amended: every downloading event whose snapshot can be built produces
\* exactly one invocation of the registered callback, carrying the event's
\* data; an event whose snapshot construction raises produces none.
C11_EveryValidDownloadingEventInvokes ==
    [][ \A t \in Tasks :
          (tpc[t] = "try" /\ tpc'[t] # "try" /\ cur[t].status = "downloading")
            => LET s == held[t].sess
               IN IF cur[t].valid
                  THEN calls'[s] = Append(calls[s],
                           [kind |-> "downloading", req |-> held[t].req, src |-> t,
                            filename |-> cur[t].filename,
                            delivered |-> connected[s]])
                  ELSE calls'[s] = calls[s] ]_vars

\* C11 witness: two downloading events in a row of the session's download
\* were both delivered.
C11_Witness ==
    /\ Len(calls["s1"]) >= 2
    /\ \A i \in 1 .. 2 :
          /\ calls["s1"][i].kind = "downloading"
          /\ calls["s1"][i].src = "s1"
          /\ calls["s1"][i].delivered

\* C12: for a single item, no downloading snapshot of the final artifact is
\* delivered to the consumer after the finished snapshot of that artifact.
C12_NoDownloadingAfterFinished ==
    \A s \in Sessions : \A i, j \in DOMAIN calls[s] :
        ( /\ i < j
          /\ calls[s][i].req = calls[s][j].req
          /\ calls[s][i].kind = "finished"
          /\ IsFinalArtifact(calls[s][i].filename)
          /\ calls[s][i].delivered )
        => ~ ( /\ calls[s][j].kind = "downloading"
               /\ IsFinalArtifact(calls[s][j].filename)
               /\ calls[s][j].delivered )

\* C14: for every playlist with some empty entries the playlist fetch
\* succeeds and returns one VideoInfo per non-empty entry, in original order,
\* with the entry's original 1-based position as playlist_index.
C14_PlaylistFetchKeepsPositions ==
    (batch_out.status # None /\ batch_in.info = "playlist") =>
        LET r == GetPlaylistInfo(batch_in)
        IN /\ r.ok
           /\ Len(r.videos) = Cardinality(NonEmpty(batch_in))
           /\ \A k \in 1 .. Len(r.videos) :
                 /\ r.videos[k].playlist_index \in NonEmpty(batch_in)
                 /\ r.videos[k].id = batch_in.entries[r.videos[k].playlist_index]
                 /\ \A j \in 1 .. k - 1 :
                       r.videos[j].playlist_index < r.videos[k].playlist_index

OutputIncluded(x) ==
    \/ x.has_audio /\ x.has_video
    \/ x.has_video /\ x.ext = "mp4"
    \/ x.has_audio /\ ~x.has_video

\* C15: the formats get_video_info returns are ordered non-increasing by tbr
\* with every record without tbr behind every record with one, and each of
\* them satisfies the inclusion rule.
C15_FormatsRankedAndIncluded ==
    fmt_out.status = "returned" =>
        LET out == fmt_out.formats
        IN /\ \A i, j \in DOMAIN out :
                 i < j => /\ out[i].tbr = NoTbr => out[j].tbr = NoTbr
                          /\ (out[i].tbr # NoTbr /\ out[j].tbr # NoTbr)
                                => out[i].tbr[1] >= out[j].tbr[1]
           /\ \A i \in DOMAIN out : OutputIncluded(out[i])

\* C15 witness: a record without tbr, one the rule excludes and one with a
\* tbr were given in this order; the output holds the third, then the first.
C15_Witness ==
    /\ fmt_out.status = "returned"
    /\ Len(fmt_in.formats) = 3
    /\ fmt_in.formats[1].tbr = NoTbr /\ IncludesFormat(fmt_in.formats[1])
    /\ ~IncludesFormat(fmt_in.formats[2])
    /\ fmt_in.formats[3].tbr = <<2>> /\ IncludesFormat(fmt_in.formats[3])
    /\ Len(fmt_out.formats) = 2
    /\ fmt_out.formats[1].tbr = <<2>>
    /\ fmt_out.formats[2].tbr = NoTbr

C17_BatchProgressWired ==
    (batch_out.status # None /\ batch_in.info = "playlist"
        /\ NonEmpty(batch_in) # {}) =>
        /\ batch_out.status = "returned"
        /\ Len(batch_out.attempted) = Cardinality(NonEmpty(batch_in))
        /\ BatchCallKeywords \subseteq DownloadVideoParams
        /\ BatchHookField = "current_video"

\* C18: a hook invocation whose identifier is deregistered between the
\* membership test and the lookup returns without raising and leaves the
\* registry unchanged; deregistering an absent identifier changes nothing.
C18_StrayHookHarmless ==
    /\ [][ \A t \in Tasks :
             ( /\ tpc[t] = "lookup" /\ tpc'[t] # "lookup"
               /\ cur[t].id \notin DOMAIN progress_callbacks )
             => /\ hookfault'[t] = None
                /\ tres'[t] # "raised"
                /\ progress_callbacks' = progress_callbacks ]_vars
    /\ [](\A id \in Ids \cup {None} :
             id \notin DOMAIN progress_callbacks
                => Cleanup(progress_callbacks, id) = progress_callbacks)

\* C19: the download thread is never held up by outbound delivery: a thread
\* that is about to hand a snapshot to the callback can always take its step.
C19_HookNeverWaitsForConsumer ==
    \A t \in Tasks : tpc[t] = "try" => ENABLED HookTry(t)

\* C20: the external download starts only with a resolved identifier and,
\* for a call with callback, with the callback registered under it; a call
\* that ends with IdResolutionFailed registers nothing and starts no download.
C20_DownloadAfterIdAndRegistration ==
    [][ \A t \in Tasks :
          /\ (tpc[t] = "off" /\ tpc'[t] = "run") =>
                /\ video_id'[t] \in Ids
                /\ t \in Sessions =>
                      /\ video_id'[t] \in DOMAIN progress_callbacks'
                      /\ progress_callbacks'[video_id'[t]]
                            = [sess |-> t, req |-> reqno'[t]]
          /\ (outcome[t] # "IdResolutionFailed"
                 /\ outcome'[t] = "IdResolutionFailed") =>
                /\ progress_callbacks' = progress_callbacks
                /\ tpc[t] = "off" /\ tpc'[t] = "off" ]_vars

\* C20 witness: the background call ended with IdResolutionFailed and the
\* session's download runs with its callback registered.
C20_Witness ==
    /\ outcome["b1"] = "IdResolutionFailed" /\ tpc["b1"] = "off"
    /\ pc["s1"] = "await" /\ tpc["s1"] = "run"
    /\ "X" \in DOMAIN progress_callbacks
    /\ progress_callbacks["X"].sess = "s1"

\* C21: while two downloads of the same identifier are in flight, each
\* download's callback stays registered until that download itself ends: a
\* session that awaits its download finds its own callback under its id.
C21_RegistrationPerDownload ==
    \A s \in Sessions :
        pc[s] = "await" =>
            /\ video_id[s] \in DOMAIN progress_callbacks
            /\ progress_callbacks[video_id[s]] = [sess |-> s, req |-> reqno[s]]

\* C22: every fault the hook's except clause swallows is recorded: a hook
\* step that swallows a fault of building the snapshot or of the callback's
\* send increases the service's record of faults.
C22_SwallowedFaultsRecorded ==
    [][ \A t \in Tasks :
          ( /\ tpc[t] = "try" /\ tpc'[t] = "run"
            /\ \/ ~cur[t].valid
               \/ Forwards(cur[t]) /\ ~connected[held[t].sess] )
          => fault_log' > fault_log ]_vars

====
